---- MODULE Spec2Model ----
(***************************************************************************)
(* The e-commerce backend of src/index.js and its sibling revisions        *)
(* (src/unnamed/part_000, part_001): the Users and Product collections,    *)
(* and the express handlers that read and write them.                      *)
(*                                                                         *)
(* Two revisions of the handlers exist in the source:                      *)
(*   "v1"  src/index.js:1-436, part_000, part_001: no input validators,    *)
(*         no try/catch around the store calls of signup and the cart      *)
(*         handlers, cart = item -> quantity;                              *)
(*   "v2"  src/index.js:437-889: express-validator checks, try/catch,      *)
(*         cart = item -> size -> quantity.                                *)
(* The variable rev is the revision that is deployed.                      *)
(*                                                                         *)
(* A handler is an async function: it runs atomically up to each await of  *)
(* a store call, and other requests run in between.  One action models     *)
(* one such segment, together with the store call that ends the await.     *)
(* Awaits of bcrypt (hash, compare) touch no shared state and are folded   *)
(* into the segment that follows them.                                     *)
(*                                                                         *)
(* cartData is modelled as the handlers use it: an object indexed by       *)
(* cartData[itemId] whose keys and values are what findOne returns and     *)
(* what findOneAndUpdate stores.                                           *)
(***************************************************************************)
EXTENDS Integers, Sequences, FiniteSets, TLC

VARIABLES
    rev,        \* the deployed revision, "v1" or "v2"
    users,      \* the Users collection, in insertion order; a user's _id is its index
    products,   \* the Product collection, in insertion (find({})) order
    tokens,     \* user ids for which jwt.sign has issued a token
    orders,     \* the Order collection, in insertion order
    preferences,\* the ids of the payment preferences the provider has created
    reqs        \* the requests received so far, each with its position and its response

vars == <<rev, users, products, tokens, orders, preferences, reqs>>

----------------------------------------------------------------------------
(* Bounds of the model *)

\* requests received in one run of the users-side specifications
MaxUserReqs == 3
\* requests received in one run of the catalog-side specifications
MaxCatalogReqs == 4
\* requests received in one run of the checkout-side specification
MaxOrderReqs == 3

\* products in a catalog drawn for the listing specification
MaxCatalogLen == 11

\* ids, and number of products, of a catalog drawn for the related-products
\* specification
MaxRelatedId == 5
MaxRelatedLen == 3

(* Program constants *)

\* const fixedProductIds = [1, 2, 3, 4]
fixedProductIds == {1, 2, 3, 4}

\* /newcollections sends products.slice(1).slice(-8)
NewCollectionSize == 8

\* signup preallocates cart[0] .. cart[299]
NumSlots == 300
\* body('password').isLength({ min: 5 })
MinPasswordLen == 5

(* Inputs *)

Emails == {"a@x.com", "b@x.com"}
\* a password is its text and the length of the text
Passwords == { [text |-> "secret123", len |-> 9],
               [text |-> "abc", len |-> 3] }
\* item 5 has a preallocated slot, item 300 has none
Items == {5, 300}
Sizes == {"M", "L"}
NoSize == "-"

\* the bodies of /addproduct requests: a string that is absent is "", an image
\* is the sequence of the segments of its URL between the "/", a price is a
\* number, a string that is no number, or absent
Shirt == [name |-> "shirt", image |-> <<"cdn", "shirt.png">>, category |-> "women",
          new_price |-> [t |-> "number", n |-> 10],
          old_price |-> [t |-> "number", n |-> 20],
          description |-> "a shirt", sizes |-> {"M", "L"}]
ProductInputs ==
    { Shirt,
      [Shirt EXCEPT !.name = ""],
      [Shirt EXCEPT !.new_price = [t |-> "string", s |-> "abc"]],
      [Shirt EXCEPT !.old_price = [t |-> "undefined"]] }
\* the ids /removeproduct requests name are 1 .. MaxProductId
MaxProductId == 3

\* the :id of a /relatedproducts request: of a product in the fixed set, of
\* one outside it, of none
RequestedIds == {1, MaxRelatedId, 99}

\* the total amount of the items of a checkout request
Totals == {0, 30}
\* the ids the payment provider gives to the preferences (sessions) it creates,
\* and the paymentId values a client can send to /create-order
PaymentIds == {"pay-1", "pay-2"}
\* shipping addresses; "" is an absent one
Addresses == {"Calle 1", ""}

----------------------------------------------------------------------------
(* JavaScript values held in a cart *)

Undefined == [t |-> "undefined"]
NaN == [t |-> "NaN"]
Num(k) == [t |-> "number", n |-> k]
\* an object keyed by size; a key that is absent holds Undefined
Obj(o) == [t |-> "object", o |-> o]
EmptyObject == [s \in Sizes |-> Undefined]

\* !v is false
Truthy(v) == \/ v.t = "object"
             \/ v.t = "number" /\ v.n # 0

\* v > 0
GreaterThanZero(v) == v.t = "number" /\ v.n > 0

\* v + 1 (v += 1): undefined + 1 and NaN + 1 are NaN
PlusOne(v) == IF v.t = "number" THEN Num(v.n + 1) ELSE NaN

\* v - 1 (v -= 1)
MinusOne(v) == IF v.t = "number" THEN Num(v.n - 1) ELSE NaN

\* v[size]: a property of a number or of undefined's stand-in is undefined
Property(v, size) == IF v.t = "object" THEN v.o[size] ELSE Undefined

----------------------------------------------------------------------------
(* The cart of a user (cartData) *)

\* cartData as signup builds it, restricted to the keys the requests of the
\* model can name: keys 0 .. NumSlots-1 hold 0, every other key is absent
InitialCart == [k \in Items |-> IF k < NumSlots THEN Num(0) ELSE Undefined]

\* v1: userData.cartData[itemId] += 1
AddFlat(cart, item) == [cart EXCEPT ![item] = PlusOne(@)]

\* v1: if (userData.cartData[itemId] > 0) userData.cartData[itemId] -= 1
RemoveFlat(cart, item) ==
    IF GreaterThanZero(cart[item])
    THEN [cart EXCEPT ![item] = MinusOne(@)]
    ELSE cart

\* v2: create cartData[itemId] and cartData[itemId][size] when falsy, then += 1
\* (an assignment to a property of a number changes nothing)
AddSized(cart, item, size) ==
    LET c1 == IF ~Truthy(cart[item])
              THEN [cart EXCEPT ![item] = Obj(EmptyObject)]
              ELSE cart
        c2 == IF ~Truthy(Property(c1[item], size))
              THEN [c1 EXCEPT ![item].o[size] = Num(0)]
              ELSE c1
    IN  IF c1[item].t = "object"
        THEN [c2 EXCEPT ![item].o[size] = PlusOne(@)]
        ELSE cart

\* v2: if (cartData[itemId] && cartData[itemId][size] > 0) cartData[itemId][size] -= 1
RemoveSized(cart, item, size) ==
    IF Truthy(cart[item]) /\ GreaterThanZero(Property(cart[item], size))
    THEN [cart EXCEPT ![item].o[size] = MinusOne(@)]
    ELSE cart

\* the in-memory change of /addtocart in the deployed revision
AddToCartData(cart, item, size) ==
    IF rev = "v1" THEN AddFlat(cart, item) ELSE AddSized(cart, item, size)

\* the in-memory change of /removefromcart in the deployed revision
RemoveFromCartData(cart, item, size) ==
    IF rev = "v1" THEN RemoveFlat(cart, item) ELSE RemoveSized(cart, item, size)

\* the in-memory change the handler of op makes
Change(op, cart, item, size) ==
    IF op = "addtocart" THEN AddToCartData(cart, item, size)
    ELSE RemoveFromCartData(cart, item, size)

\* the value stored for (item, size): cart[item] in v1, cart[item][size] in v2,
\* where the 0 of an untouched slot stands for every size
Stored(cart, item, size) ==
    IF cart[item].t = "object" THEN cart[item].o[size] ELSE cart[item]

\* the quantity a client reads for (item, size): an absent entry counts as 0
Quantity(cart, item, size) ==
    IF Stored(cart, item, size) = Undefined THEN Num(0) ELSE Stored(cart, item, size)

----------------------------------------------------------------------------
(* The Users collection *)

\* bcrypt.hash(password, 10); the salt is left out
Hash(pw) == [bcrypt |-> pw.text]

\* a comparison that accepts every password
CompareAny(pw, hash) == TRUE

\* bcrypt.compare(password, user.password)
Compare(pw, hash) == hash.bcrypt = pw.text

\* a lookup that never finds the user
FindByEmailNull(us, email) == 0

\* Users.findOne({ email }): the _id of the first user with that email, 0 for null
FindByEmail(us, email) ==
    IF \E i \in 1..Len(us) : us[i].email = email
    THEN CHOOSE i \in 1..Len(us) :
            /\ us[i].email = email
            /\ \A j \in 1..(i - 1) : us[j].email # email
    ELSE 0

\* a collection without the unique index: no insert is rejected
DuplicateKeyUnenforced(us, email) == FALSE

\* the unique index on email (email: { unique: true }) rejects the insert
DuplicateKey(us, email) == \E i \in 1..Len(us) : us[i].email = email

\* the validators of /signup in v2 (the emails of the model are well formed)
ValidSignup(email, pw) == pw.len >= MinPasswordLen

----------------------------------------------------------------------------
(* Tokens and requests *)

NoToken == [kind |-> "none", uid |-> 0]
ForgedToken == [kind |-> "forged", uid |-> 1]
SignedToken(uid) == [kind |-> "signed", uid |-> uid]

\* a verification that accepts every token
VerifiesAny(tok) == TRUE

\* jwt.verify(token, JWT_SECRET) succeeds
Verifies(tok) == tok.kind = "signed"

NoResponse == [status |-> 0, body |-> "", uid |-> 0]
Response(status, body) == [status |-> status, body |-> body, uid |-> 0]
TokenResponse(uid) == [status |-> 200, body |-> "token", uid |-> uid]

\* a request is a record of its inputs, its position (pc: "done", or the store
\* call its handler awaits), the locals of its handler and the response it has
\* sent (status 0: none); was is the value a cart mutation found stored for its
\* (item, size), kept for the properties
AuthRequest(op, email, pw) ==
    [op |-> op, pc |-> "done", email |-> email, password |-> pw, resp |-> NoResponse]
CartRequest(op, tok, item, size) ==
    [op |-> op, pc |-> "done", tok |-> tok, item |-> item, size |-> size,
     was |-> Undefined, userData |-> << >>, resp |-> NoResponse]
GetCartRequest(tok) ==
    [op |-> "getcart", pc |-> "done", tok |-> tok, userData |-> << >>,
     resp |-> NoResponse]
AddProductRequest(f) ==
    [op |-> "addproduct", pc |-> "done", fields |-> f, id |-> 0, resp |-> NoResponse]
RemoveProductRequest(id) ==
    [op |-> "removeproduct", pc |-> "done", id |-> id, resp |-> NoResponse]
\* list is the array of products the response carries
ListRequest(op, list) ==
    [op |-> op, pc |-> "done", list |-> list, resp |-> NoResponse]
\* id is the :id of the path
RelatedRequest(id, list) ==
    [op |-> "relatedproducts", pc |-> "done", id |-> id, list |-> list,
     resp |-> NoResponse]

\* total is the sum of unit_price * quantity over the items
CheckoutRequest(total) ==
    [op |-> "checkout", pc |-> "done", total |-> total, resp |-> NoResponse]
CreateOrderRequest(paymentId, shippingAddress) ==
    [op |-> "createorder", pc |-> "done", paymentId |-> paymentId,
     shippingAddress |-> shippingAddress, resp |-> NoResponse]

UserOps == {"signup", "login", "addtocart", "removefromcart", "getcart"}
CatalogOps ==
    {"addproduct", "removeproduct", "allproducts", "newcollections", "relatedproducts"}

Count(ops) == Cardinality({i \in 1..Len(reqs) : reqs[i].op \in ops})

\* the tokens a client can present: the issued ones, none, or one it made up
PresentableTokens == {SignedToken(u) : u \in tokens} \cup {NoToken, ForgedToken}

\* the sizes a cart request carries: v1 reads no size
RequestSizes == IF rev = "v1" THEN {NoSize} ELSE Sizes

OrderOps == {"checkout", "createorder"}

\* the requests one run receives are bounded, per side
Limit(op) ==
    IF op \in UserOps THEN MaxUserReqs
    ELSE IF op \in CatalogOps THEN MaxCatalogReqs
    ELSE MaxOrderReqs
Side(op) ==
    IF op \in UserOps THEN UserOps
    ELSE IF op \in CatalogOps THEN CatalogOps
    ELSE OrderOps

Receive(r) ==
    /\ Count(Side(r.op)) < Limit(r.op)
    /\ reqs' = Append(reqs, r)
Resume(i, r) == reqs' = [reqs EXCEPT ![i] = r]

\* what a handler without try/catch leaves when a store call rejects: the
\* rejection is unhandled and no response is sent; with try/catch: 500
Rejected(r, body) ==
    IF rev = "v1"
    THEN [r EXCEPT !.pc = "done", !.resp = NoResponse]
    ELSE [r EXCEPT !.pc = "done", !.resp = Response(500, body)]

----------------------------------------------------------------------------
(* POST /signup *)

\* the user document signup builds
NewUser(email, pw) ==
    [name |-> "name", email |-> email, password |-> Hash(pw), cartData |-> InitialCart]

\* the request arrives; validators (v2); Users.findOne({ email }); an existing
\* user is answered 400
Signup(email, pw) ==
    LET r == AuthRequest("signup", email, pw)
    IN  /\ Receive(
            IF rev = "v2" /\ ~ValidSignup(email, pw)
            THEN [r EXCEPT !.resp = Response(400, "errors")]
            ELSE IF FindByEmail(users, email) # 0
            THEN [r EXCEPT !.resp = Response(400, "Existing user found with same Email address")]
            ELSE [r EXCEPT !.pc = "save"])
        /\ UNCHANGED <<rev, orders, preferences, users, products, tokens>>

\* a signup that signs and sends the token before it saves the user
SignupSaveSignsFirst(i) ==
    LET r == reqs[i]
    IN  /\ r.op = "signup" /\ r.pc = "save"
        /\ tokens' = tokens \cup {Len(users) + 1}
        /\ Resume(i, [r EXCEPT !.pc = "done", !.resp = TokenResponse(Len(users) + 1)])
        /\ users' = IF DuplicateKey(users, r.email)
                    THEN users
                    ELSE Append(users, NewUser(r.email, r.password))
        /\ UNCHANGED <<rev, orders, preferences, products>>

\* bcrypt.hash, user.save(), jwt.sign, res.json({ success: true, token })
SignupSave(i) ==
    LET r == reqs[i]
    IN  /\ r.op = "signup" /\ r.pc = "save"
        /\ IF DuplicateKey(users, r.email)
           THEN /\ Resume(i, Rejected(r, "Failed to sign up user"))
                /\ UNCHANGED <<users, tokens>>
           ELSE /\ users' = Append(users, NewUser(r.email, r.password))
                /\ tokens' = tokens \cup {Len(users) + 1}
                /\ Resume(i, [r EXCEPT !.pc = "done",
                                       !.resp = TokenResponse(Len(users) + 1)])
        /\ UNCHANGED <<rev, orders, preferences, products>>

(* POST /login *)

\* validators (v2: the inputs of the model pass them); Users.findOne({ email });
\* bcrypt.compare; jwt.sign
Login(email, pw) ==
    LET r == AuthRequest("login", email, pw)
        u == FindByEmail(users, email)
        failure == IF rev = "v1" THEN 200 ELSE 400
    IN  /\ IF u # 0 /\ Compare(pw, users[u].password)
           THEN /\ Receive([r EXCEPT !.resp = TokenResponse(u)])
                /\ tokens' = tokens \cup {u}
           ELSE /\ Receive([r EXCEPT !.resp =
                        IF u # 0 THEN Response(failure, "Wrong Password")
                                 ELSE Response(failure, "Wrong Email Id")])
                /\ UNCHANGED tokens
        /\ UNCHANGED <<rev, orders, preferences, users, products>>

----------------------------------------------------------------------------
(* The cart endpoints, behind fetchUser *)

\* Users.findOne({ _id }) finds a user
UserExists(uid) == uid \in 1..Len(users)

\* fetchUser lets the request through
Authenticated(tok) == tok.kind # "none" /\ Verifies(tok)

Unauthenticated(r) ==
    [r EXCEPT !.resp = Response(401, "Please Authenticate using valid token")]

\* the first segment of /addtocart and /removefromcart: fetchUser, validators
\* (v2: the inputs of the model pass them), Users.findOne({ _id }), and the
\* change of userData.cartData in memory
CartRead(op, tok, item, size) ==
    LET r == CartRequest(op, tok, item, size)
    IN  /\ Receive(
            IF ~Authenticated(tok) THEN Unauthenticated(r)
            ELSE IF ~UserExists(tok.uid)
            THEN Rejected(r, "Server Error")
            ELSE [r EXCEPT !.pc = "update",
                           !.was = Stored(users[tok.uid].cartData, item, size),
                           !.userData = Change(op, users[tok.uid].cartData, item, size)])
        /\ UNCHANGED <<rev, orders, preferences, users, products, tokens>>

\* an update whose filter matches every user
UpdateEveryCart(us, uid, cart) ==
    [u \in 1..Len(us) |-> [us[u] EXCEPT !.cartData = cart]]

\* Users.findOneAndUpdate({ _id }, { cartData: userData.cartData }): the whole
\* cart is replaced by the copy in memory
UpdateCart(us, uid, cart) ==
    IF uid \in 1..Len(us) THEN [us EXCEPT ![uid].cartData = cart] ELSE us

\* the second segment: findOneAndUpdate, res.send
CartWrite(i, op, body) ==
    LET r == reqs[i]
    IN  /\ r.op = op /\ r.pc = "update"
        /\ users' = UpdateCart(users, r.tok.uid, r.userData)
        /\ Resume(i, [r EXCEPT !.pc = "done", !.resp = Response(200, body)])
        /\ UNCHANGED <<rev, orders, preferences, products, tokens>>

AddToCart(tok, item, size) == CartRead("addtocart", tok, item, size)
AddToCartUpdate(i) == CartWrite(i, "addtocart", "Added")

RemoveFromCart(tok, item, size) ==
    CartRead("removefromcart", tok, item, size)
RemoveFromCartUpdate(i) == CartWrite(i, "removefromcart", "Removed")

\* GET /getcart: fetchUser, Users.findOne({ _id }), res.json(userData.cartData);
\* the cart sent is kept in userData
GetCart(tok) ==
    LET r == GetCartRequest(tok)
    IN  /\ Receive(
            IF ~Authenticated(tok) THEN Unauthenticated(r)
            ELSE IF ~UserExists(tok.uid)
            THEN [r EXCEPT !.resp = Response(500, "Server Error")]
            ELSE [r EXCEPT !.userData = users[tok.uid].cartData,
                           !.resp = Response(200, "cartData")])
        /\ UNCHANGED <<rev, orders, preferences, users, products, tokens>>

----------------------------------------------------------------------------
(* The Product collection: POST /addproduct, POST /removeproduct *)

\* isNumeric(): the value is a number (absent and "abc" are not)
IsNumeric(v) == v.t = "number"

\* the validators of /addproduct in v2: notEmpty on the strings, isNumeric on
\* the prices (the sizes of the model are an array)
ValidProduct(f) ==
    /\ f.name # ""
    /\ f.image # << >>
    /\ f.category # ""
    /\ IsNumeric(f.new_price)
    /\ IsNumeric(f.old_price)
    /\ f.description # ""

\* an id taken from the number of products instead of the last id
NextIdByCount(ps) == Len(ps) + 1

\* the id /addproduct computes from Product.find({}): the id of the last
\* product + 1, or 1 when there is none
NextId(ps) == IF Len(ps) > 0 THEN ps[Len(ps)].id + 1 ELSE 1

\* v2 stores req.body.image.split('/').pop(), v1 the image as sent
StoredImage(image) ==
    IF rev = "v2" /\ image # << >> THEN <<image[Len(image)]>> ELSE image

\* the document new Product({...}) builds; available defaults to true
NewProduct(id, f) ==
    [id |-> id, name |-> f.name, image |-> StoredImage(f.image),
     category |-> f.category, new_price |-> f.new_price, old_price |-> f.old_price,
     description |-> f.description, sizes |-> f.sizes, available |-> TRUE]

\* the schema lets save() through: required: true on the string fields, and
\* type: Number, required: true on the prices
SchemaValid(doc) ==
    /\ doc.name # ""
    /\ doc.image # << >> /\ doc.image # <<"">>
    /\ doc.category # ""
    /\ doc.new_price.t = "number"
    /\ doc.old_price.t = "number"
    /\ doc.description # ""

\* the request arrives; validators (v2); Product.find({}) and the id
AddProduct(f) ==
    LET r == AddProductRequest(f)
    IN  /\ Receive(
            IF rev = "v2" /\ ~ValidProduct(f)
            THEN [r EXCEPT !.resp = Response(400, "errors")]
            ELSE [r EXCEPT !.pc = "save", !.id = NextId(products)])
        /\ UNCHANGED <<rev, orders, preferences, users, products, tokens>>

\* product.save(), res.json({ success: 1, name })
AddProductSave(i) ==
    LET r == reqs[i]
        doc == NewProduct(r.id, r.fields)
    IN  /\ r.op = "addproduct" /\ r.pc = "save"
        /\ IF SchemaValid(doc)
           THEN /\ products' = Append(products, doc)
                /\ Resume(i, [r EXCEPT !.pc = "done", !.resp = Response(200, "success")])
           ELSE /\ Resume(i, Rejected(r, "Failed to save product"))
                /\ UNCHANGED products
        /\ UNCHANGED <<rev, orders, preferences, users, tokens>>

\* Product.findOneAndDelete({ id }): the first product with that id is removed
DeleteFirst(ps, id) ==
    IF \E k \in 1..Len(ps) : ps[k].id = id
    THEN LET k == CHOOSE k \in 1..Len(ps) :
                     /\ ps[k].id = id
                     /\ \A j \in 1..(k - 1) : ps[j].id # id
         IN  SubSeq(ps, 1, k - 1) \o SubSeq(ps, k + 1, Len(ps))
    ELSE ps

\* validators (v2: the ids of the model are numbers); findOneAndDelete;
\* res.json({ success: true })
RemoveProduct(id) ==
    LET r == RemoveProductRequest(id)
    IN  /\ Receive([r EXCEPT !.resp = Response(200, "success")])
        /\ products' = DeleteFirst(products, id)
        /\ UNCHANGED <<rev, orders, preferences, users, tokens>>

\* GET /allproducts: Product.find({}), res.send(products)
AllProducts ==
    /\ Receive([ListRequest("allproducts", products)
                   EXCEPT !.resp = Response(200, "products")])
    /\ UNCHANGED <<rev, orders, preferences, users, products, tokens>>

\* Array.prototype.slice(begin): the elements from index begin (0-based) on; a
\* negative begin counts from the end; out of range is clipped
Slice(s, begin) ==
    LET from == IF begin < 0
                THEN (IF Len(s) + begin > 0 THEN Len(s) + begin ELSE 0)
                ELSE (IF begin < Len(s) THEN begin ELSE Len(s))
    IN  SubSeq(s, from + 1, Len(s))

\* a listing that keeps the first product
NewCollectionWithFirst(ps) == Slice(ps, -NewCollectionSize)

\* products.slice(1).slice(-8)
NewCollection(ps) == Slice(Slice(ps, 1), -NewCollectionSize)

\* GET /newcollections: Product.find({}), res.send(newcollection)
NewCollections ==
    /\ Receive([ListRequest("newcollections", NewCollection(products))
                   EXCEPT !.resp = Response(200, "newcollection")])
    /\ UNCHANGED <<rev, orders, preferences, users, products, tokens>>

\* the products related to the requested one only
RelatedToRequested(ps, id) == SelectSeq(ps, LAMBDA p : p.id = id)

\* Product.find({ id: { $in: fixedProductIds } }); the requested id is not read
FindRelated(ps, id) == SelectSeq(ps, LAMBDA p : p.id \in fixedProductIds)

\* GET /relatedproducts/:id: 404 when the find is empty, else the products found
RelatedProducts(id) ==
    LET relatedProducts == FindRelated(products, id)
    IN  /\ Receive(
            IF Len(relatedProducts) = 0
            THEN [RelatedRequest(id, << >>)
                    EXCEPT !.resp = Response(404, "Related products not found")]
            ELSE [RelatedRequest(id, relatedProducts)
                    EXCEPT !.resp = Response(200, "relatedProducts")])
        /\ UNCHANGED <<rev, orders, preferences, users, products, tokens>>

----------------------------------------------------------------------------
(* Checkout and orders: POST /create-checkout-session, POST /create-order *)

\* v1 (Mercado Pago): a total <= 0 throws before the provider is called; an
\* answer of the provider that is not ok throws; both are caught and answered
\* 500; otherwise the id of the created preference is sent back.
\* v2 (Stripe): sessions.create either throws (500) or gives the session's id.
\* ok and id are the provider's answer.
CreateCheckoutSession(total, ok, id) ==
    LET r == CheckoutRequest(total)
    IN  /\ IF (rev = "v1" /\ total <= 0) \/ ~ok
           THEN /\ Receive([r EXCEPT !.resp = Response(500, "Server Error")])
                /\ UNCHANGED preferences
           ELSE /\ Receive([r EXCEPT !.resp = Response(200, id)])
                /\ preferences' = preferences \cup {id}
        /\ UNCHANGED <<rev, orders, users, products, tokens>>

\* the Order schema: paymentId and shippingAddress are required strings
OrderValid(doc) == doc.paymentId # "" /\ doc.shippingAddress # ""

\* v1: new Order({ paymentId, shippingAddress }).save(), answered 201, or 500
\* when save() rejects; v2 has no such route and express answers 404
CreateOrder(paymentId, shippingAddress) ==
    LET r == CreateOrderRequest(paymentId, shippingAddress)
        newOrder == [paymentId |-> paymentId, shippingAddress |-> shippingAddress]
    IN  /\ IF rev = "v2"
           THEN /\ Receive([r EXCEPT !.resp = Response(404, "Cannot POST /create-order")])
                /\ UNCHANGED orders
           ELSE IF OrderValid(newOrder)
           THEN /\ Receive([r EXCEPT !.resp = Response(201, "Order created successfully")])
                /\ orders' = Append(orders, newOrder)
           ELSE /\ Receive([r EXCEPT !.resp = Response(500, "Server Error")])
                /\ UNCHANGED orders
        /\ UNCHANGED <<rev, preferences, users, products, tokens>>

----------------------------------------------------------------------------
(* Specifications *)

Init ==
    /\ rev \in {"v1", "v2"}
    /\ users = << >>
    /\ products = << >>
    /\ tokens = {}
    /\ orders = << >>
    /\ preferences = {}
    /\ reqs = << >>

\* no request is between two segments of its handler
Idle == \A i \in 1..Len(reqs) : reqs[i].pc = "done"

\* the users side: signup, login and the cart, requests interleaved at their awaits
UsersNext ==
    \/ \E email \in Emails, pw \in Passwords : Signup(email, pw)
    \/ \E email \in Emails, pw \in Passwords : Login(email, pw)
    \/ \E tok \in PresentableTokens, item \in Items, size \in RequestSizes :
          AddToCart(tok, item, size)
    \/ \E tok \in PresentableTokens, item \in Items, size \in RequestSizes :
          RemoveFromCart(tok, item, size)
    \/ \E tok \in PresentableTokens : GetCart(tok)
    \/ \E i \in 1..Len(reqs) : SignupSave(i)
    \/ \E i \in 1..Len(reqs) : AddToCartUpdate(i)
    \/ \E i \in 1..Len(reqs) : RemoveFromCartUpdate(i)

SpecUsers == Init /\ [][UsersNext]_vars

\* the users side with one request at a time: a request is received only when
\* every earlier one has run to its end
UsersSeqNext ==
    \/ \E email \in Emails, pw \in Passwords : Idle /\ Signup(email, pw)
    \/ \E email \in Emails, pw \in Passwords : Idle /\ Login(email, pw)
    \/ \E tok \in PresentableTokens, item \in Items, size \in RequestSizes :
          Idle /\ AddToCart(tok, item, size)
    \/ \E tok \in PresentableTokens, item \in Items, size \in RequestSizes :
          Idle /\ RemoveFromCart(tok, item, size)
    \/ \E tok \in PresentableTokens : Idle /\ GetCart(tok)
    \/ \E i \in 1..Len(reqs) : SignupSave(i)
    \/ \E i \in 1..Len(reqs) : AddToCartUpdate(i)
    \/ \E i \in 1..Len(reqs) : RemoveFromCartUpdate(i)

SpecUsersSeq == Init /\ [][UsersSeqNext]_vars

\* the catalog side, requests interleaved at their awaits
CatalogNext ==
    \/ \E f \in ProductInputs : AddProduct(f)
    \/ \E i \in 1..Len(reqs) : AddProductSave(i)
    \/ \E id \in 1..MaxProductId : RemoveProduct(id)
    \/ AllProducts

SpecCatalog == Init /\ [][CatalogNext]_vars

\* the catalog side with one request at a time
CatalogSeqNext ==
    \/ \E f \in ProductInputs : Idle /\ AddProduct(f)
    \/ \E i \in 1..Len(reqs) : AddProductSave(i)
    \/ \E id \in 1..MaxProductId : Idle /\ RemoveProduct(id)
    \/ Idle /\ AllProducts

SpecCatalogSeq == Init /\ [][CatalogSeqNext]_vars

\* the checkout side: each handler is one segment
OrdersNext ==
    \/ \E total \in Totals, ok \in BOOLEAN, id \in PaymentIds :
          CreateCheckoutSession(total, ok, id)
    \/ \E paymentId \in PaymentIds, shippingAddress \in Addresses :
          CreateOrder(paymentId, shippingAddress)

SpecOrders == Init /\ [][OrdersNext]_vars

\* the catalog that holds, in the order of their ids, a product for each id of ids
RECURSIVE CatalogOf(_)
CatalogOf(ids) ==
    IF ids = {} THEN << >>
    ELSE LET last == CHOOSE m \in ids : \A k \in ids : k <= m
         IN  Append(CatalogOf(ids \ {last}), NewProduct(last, Shirt))

\* the listings on a catalog as addProduct and removeProduct requests, one at a
\* time, leave it: ids increasing in stored order
ListingInit ==
    /\ rev \in {"v1", "v2"}
    /\ users = << >>
    /\ products \in {CatalogOf(ids) : ids \in SUBSET (1..MaxCatalogLen)}
    /\ tokens = {}
    /\ orders = << >>
    /\ preferences = {}
    /\ reqs = << >>

ListingNext ==
    \/ NewCollections
    \/ AllProducts

SpecListing == ListingInit /\ [][ListingNext]_vars

\* the sequences of at most n elements of S
SeqsUpTo(S, n) == UNION {[1..k -> S] : k \in 0..n}

\* related products on a catalog as addProduct and removeProduct requests,
\* concurrent ones included, leave it: any ids in any order
RelatedInit ==
    /\ rev \in {"v1", "v2"}
    /\ users = << >>
    /\ products \in {[k \in 1..Len(ids) |-> NewProduct(ids[k], Shirt)] :
                        ids \in SeqsUpTo(1..MaxRelatedId, MaxRelatedLen)}
    /\ tokens = {}
    /\ orders = << >>
    /\ preferences = {}
    /\ reqs = << >>

RelatedNext ==
    \/ \E id \in RequestedIds : RelatedProducts(id)
    \/ AllProducts

SpecRelated == RelatedInit /\ [][RelatedNext]_vars

\* every endpoint, requests interleaved at their awaits
Next ==
    \/ UsersNext \/ CatalogNext \/ OrdersNext \/ NewCollections
    \/ \E id \in RequestedIds : RelatedProducts(id)

Spec == Init /\ [][Next]_vars

----------------------------------------------------------------------------
(* Properties *)

UserIds == 1..Len(users)

\* the requests of op on the entry (item, size) of user uid that were let through
CartReqs(op, uid, item, size) ==
    {i \in 1..Len(reqs) :
        /\ reqs[i].op = op
        /\ Authenticated(reqs[i].tok) /\ reqs[i].tok.uid = uid
        /\ reqs[i].item = item /\ reqs[i].size = size}

\* the cart mutations of user uid that were let through
CartMutations(uid) ==
    {i \in 1..Len(reqs) :
        /\ reqs[i].op \in {"addtocart", "removefromcart"}
        /\ Authenticated(reqs[i].tok) /\ reqs[i].tok.uid = uid}

Max(a, b) == IF a >= b THEN a ELSE b

\* v1 can count the entry: it has a slot, or the revision creates entries
Countable(item) == rev = "v2" \/ item < NumSlots

\* C1: once every request has completed, the quantity of an entry that only
\* received addToCart and removeFromCart requests for that same entry equals
\* max(#adds - #removes, 0)  (stated for the entries whose quantity is a
\* number; C8 is about the others)
C1_NoLostUpdate ==
    \A uid \in UserIds, item \in Items, size \in RequestSizes :
        LET adds == CartReqs("addtocart", uid, item, size)
            removes == CartReqs("removefromcart", uid, item, size)
        IN  ( /\ Idle
              /\ Countable(item)
              /\ CartMutations(uid) = adds \cup removes )
            => Quantity(users[uid].cartData, item, size)
                 = Num(Max(Cardinality(adds) - Cardinality(removes), 0))

\* the signups with this email whose inputs pass the validators
SignupsWith(email) ==
    {i \in 1..Len(reqs) :
        /\ reqs[i].op = "signup" /\ reqs[i].email = email
        /\ (rev = "v2" => ValidSignup(reqs[i].email, reqs[i].password))}

Succeeded(i) == reqs[i].resp.status = 200 /\ reqs[i].resp.uid # 0
IsConflict(resp) ==
    /\ resp.status = 400
    /\ resp.body = "Existing user found with same Email address"
Conflict(i) == IsConflict(reqs[i].resp)

\* C2: of two signups with the same fresh email, once both have completed,
\* exactly one has succeeded and the other one was answered 400 'Existing user
\* found'
C2_OneSuccessOneConflict ==
    \A email \in Emails :
        \A i, j \in SignupsWith(email) :
            ( /\ i # j
              /\ SignupsWith(email) = {i, j}
              /\ reqs[i].pc = "done" /\ reqs[j].pc = "done" )
            => \/ Succeeded(i) /\ Conflict(j)
               \/ Succeeded(j) /\ Conflict(i)

\* C3: the ids of the stored products are pairwise distinct
C3_DistinctIds ==
    \A k, l \in 1..Len(products) : k # l => products[k].id # products[l].id

\* C4: no two stored users have the same email
C4_UniqueEmail ==
    \A u, v \in UserIds : u # v => users[u].email # users[v].email

\* a signup that passed the email check and was then rejected by the store
C4_Witness ==
    \E i \in 1..Len(reqs) :
        /\ reqs[i].op = "signup" /\ reqs[i].pc = "done"
        /\ reqs[i].resp.status \in {0, 500}
        /\ \E u \in UserIds : users[u].email = reqs[i].email

\* C5: when two completed addToCart requests of one user, who sent no
\* removeFromCart, are for different items, the stored cart holds both
\* increments: neither entry is what it was at signup  (stated, as C1, for the
\* entries whose quantity is a number)
C5_BothIncrementsKept ==
    \A i, j \in 1..Len(reqs) :
        ( /\ reqs[i].op = "addtocart" /\ reqs[j].op = "addtocart"
          /\ Authenticated(reqs[i].tok) /\ reqs[j].tok = reqs[i].tok
          /\ reqs[i].item # reqs[j].item
          /\ Countable(reqs[i].item) /\ Countable(reqs[j].item)
          /\ reqs[i].resp.status = 200 /\ reqs[j].resp.status = 200
          /\ \A k \in CartMutations(reqs[i].tok.uid) : reqs[k].op = "addtocart" )
        => LET cart == users[reqs[i].tok.uid].cartData
           IN  /\ cart[reqs[i].item] # InitialCart[reqs[i].item]
               /\ cart[reqs[j].item] # InitialCart[reqs[j].item]

\* the addProduct requests whose product was stored, in the order their ids
\* were assigned
Assigned == {i \in 1..Len(reqs) : reqs[i].op = "addproduct" /\ reqs[i].resp.status = 200}

\* C6 as stated: the id assigned by an addProduct differs from every id
\* assigned by an earlier addProduct
C6_IdNeverReused ==
    \A i, j \in Assigned : i < j => reqs[i].id # reqs[j].id

\* C6 as amended: with one request at a time, the id an addProduct assigns is
\* greater than the id of every product stored at that moment
C6_IdAboveStored ==
    \A i \in 1..Len(reqs) :
        (reqs[i].op = "addproduct" /\ reqs[i].pc = "save")
        => \A k \in 1..Len(products) : products[k].id < reqs[i].id

\* an id is being assigned after a deletion, while products remain stored
C6_Witness ==
    \E i, j \in 1..Len(reqs) :
        /\ i < j
        /\ reqs[i].op = "removeproduct"
        /\ reqs[j].op = "addproduct" /\ reqs[j].pc = "save"
        /\ Len(products) > 0
        /\ Len(products) + 1 < reqs[j].id

\* a stored value is a quantity >= 0 (an absent key holds none)
NonNegative(v) == v.t = "undefined" \/ (v.t = "number" /\ v.n >= 0)

\* C7: every quantity stored in every cart is >= 0, and a removeFromCart that
\* finds a quantity of 0 leaves it 0 and answers ok
C7_QuantityNonNegative ==
    /\ \A u \in UserIds, item \in Items, size \in RequestSizes :
           NonNegative(Stored(users[u].cartData, item, size))
    /\ \A i \in 1..Len(reqs) :
           ( /\ reqs[i].op = "removefromcart"
             /\ Authenticated(reqs[i].tok)
             /\ reqs[i].was = Num(0) )
           => /\ Stored(reqs[i].userData, reqs[i].item, reqs[i].size) = Num(0)
              /\ reqs[i].pc = "done" => reqs[i].resp.status = 200

\* request i is a cart mutation whose findOneAndUpdate is the step being taken
Writes(i, op) ==
    /\ i \in 1..Len(reqs)
    /\ reqs[i].op = op /\ reqs[i].pc = "update"
    /\ reqs'[i].pc = "done"

\* C8: with no other request in flight, an addToCart answers ok and makes the
\* quantity of its (item, size) the previous quantity + 1
C8_AddIncrements ==
    [][\A i \in 1..Len(reqs) :
          ( /\ Writes(i, "addtocart")
            /\ \A k \in 1..Len(reqs) : k # i => reqs[k].pc = "done" )
          => LET u == reqs[i].tok.uid
                 before == Quantity(users[u].cartData, reqs[i].item, reqs[i].size)
                 after == Quantity(users'[u].cartData, reqs[i].item, reqs[i].size)
             IN  /\ reqs'[i].resp.status = 200
                 /\ before.t = "number"
                 /\ after = Num(before.n + 1)]_vars

\* no addToCart for the entry of request i has been received
NeverAdded(i) ==
    CartReqs("addtocart", reqs[i].tok.uid, reqs[i].item, reqs[i].size) = {}

\* C9: a removeFromCart on an entry that was never added answers ok and does
\* not change the stored cart
C9_RemoveAbsentIsNoOp ==
    [][\A i \in 1..Len(reqs) :
          (Writes(i, "removefromcart") /\ NeverAdded(i))
          => /\ reqs'[i].resp.status = 200
             /\ users' = users]_vars

\* request Len(reqs') is a signup that arrives in this step
SignupArrives ==
    /\ Len(reqs') = Len(reqs) + 1
    /\ reqs'[Len(reqs')].op = "signup"

\* C10: with no other request in flight, a signup whose email a stored user
\* holds is answered 400 ('Existing user found' when its inputs pass the
\* validators), no token is issued and the user store is unchanged
C10_DuplicateSignupRejected ==
    [][( /\ SignupArrives
         /\ Idle
         /\ \E u \in UserIds : users[u].email = reqs'[Len(reqs')].email )
       => LET r == reqs'[Len(reqs')]
          IN  /\ r.pc = "done"
              /\ r.resp.status = 400 /\ r.resp.uid = 0
              /\ (rev = "v2" => ValidSignup(r.email, r.password)) => IsConflict(r.resp)
              /\ users' = users
              /\ tokens' = tokens]_vars

\* a signup was answered 'Existing user found' while a user holds its email
C10_Witness ==
    \E i \in 1..Len(reqs) :
        /\ reqs[i].op = "signup" /\ Conflict(i)
        /\ \E u \in UserIds : users[u].email = reqs[i].email

CartOps == {"addtocart", "removefromcart", "getcart"}

\* C11: a cart request (addtocart, removefromcart, getcart) that carries no
\* token, or a token that fails verification, is answered 401 on arrival, its
\* handler never runs (it awaits nothing and holds no cart), and the step
\* leaves every user's record as it was
C11_CartGated ==
    [][\A i \in 1..Len(reqs') :
          (reqs'[i].op \in CartOps /\ reqs'[i].tok.kind # "signed")
          => /\ reqs'[i].pc = "done"
             /\ reqs'[i].resp.status = 401
             /\ reqs'[i].userData = << >>
             /\ i > Len(reqs) => users' = users]_vars

\* a cart request with a made-up token naming a stored user was answered 401
C11_Witness ==
    \E i \in 1..Len(reqs) :
        /\ reqs[i].op \in CartOps
        /\ reqs[i].tok = ForgedToken
        /\ UserExists(reqs[i].tok.uid)
        /\ reqs[i].resp.status = 401

\* request Len(reqs') is a login that arrives in this step
LoginArrives ==
    /\ Len(reqs') = Len(reqs) + 1
    /\ reqs'[Len(reqs')].op = "login"

\* a stored user has this email and the hash of this password
Matches(email, pw) ==
    \E u \in UserIds : users[u].email = email /\ users[u].password = Hash(pw)

WrongCredentials == {"Wrong Password", "Wrong Email Id"}

\* C12: a login is answered with a token exactly when a stored user has its
\* email and the hash of its password, and the token is that user's; otherwise
\* it is answered 'Wrong Password' or 'Wrong Email Id' (with status 400 in
\* v2), no token is issued; either way the user store is unchanged
C12_LoginIssuesTokenOnMatch ==
    [][LoginArrives
       => LET r == reqs'[Len(reqs')]
          IN  /\ r.pc = "done"
              /\ users' = users
              /\ IF Matches(r.email, r.password)
                 THEN /\ r.resp.status = 200
                      /\ r.resp.uid \in UserIds
                      /\ users[r.resp.uid].email = r.email
                      /\ tokens' = tokens \cup {r.resp.uid}
                 ELSE /\ r.resp.uid = 0
                      /\ r.resp.body \in WrongCredentials
                      /\ rev = "v2" => r.resp.status = 400
                      /\ tokens' = tokens]_vars

\* a login with the email of a stored user and another password was answered
\* 'Wrong Password'
C12_Witness ==
    \E i \in 1..Len(reqs) :
        /\ reqs[i].op = "login"
        /\ reqs[i].resp.body = "Wrong Password"
        /\ \E u \in UserIds :
              /\ users[u].email = reqs[i].email
              /\ users[u].password # Hash(reqs[i].password)

\* the greatest id among the stored products
MaxId(ps) ==
    CHOOSE m \in {ps[k].id : k \in 1..Len(ps)} : \A k \in 1..Len(ps) : ps[k].id <= m

\* request Len(reqs') is an addProduct that arrives in this step and is
\* assigned an id
IdAssigned ==
    /\ Len(reqs') = Len(reqs) + 1
    /\ reqs'[Len(reqs')].op = "addproduct"
    /\ reqs'[Len(reqs')].pc = "save"

\* C13: the id an addProduct is assigned is the greatest id among the
\* products stored at that moment + 1, or 1 when none is stored
C13_IdIsMaxPlusOne ==
    [][IdAssigned
       => reqs'[Len(reqs')].id =
             IF Len(products) = 0 THEN 1 ELSE MaxId(products) + 1]_vars

\* request Len(reqs') is a removeProduct that arrives in this step
RemoveArrives ==
    /\ Len(reqs') = Len(reqs) + 1
    /\ reqs'[Len(reqs')].op = "removeproduct"

\* some product of ps has this id
HasId(ps, id) == \E k \in 1..Len(ps) : ps[k].id = id

\* C14: removeProduct(id) answers success; when no stored product has the id
\* it leaves the catalog unchanged; and after it no stored product has the id,
\* so that a second removeProduct(id) leaves the catalog as the first left it
C14_RemoveIdempotent ==
    [][RemoveArrives
       => LET r == reqs'[Len(reqs')]
          IN  /\ r.resp.status = 200
              /\ ~HasId(products, r.id) => products' = products
              /\ ~HasId(products', r.id)]_vars

\* the fields of a product that /addproduct takes from the request
Fields(p) ==
    [name |-> p.name, image |-> p.image, category |-> p.category,
     new_price |-> p.new_price, old_price |-> p.old_price,
     description |-> p.description, sizes |-> p.sizes]

\* request Len(reqs') is a listing of all products that arrives in this step
ListArrives ==
    /\ Len(reqs') = Len(reqs) + 1
    /\ reqs'[Len(reqs')].op = "allproducts"

\* a removeProduct for this id has been received
RemoveRequested(id) ==
    \E k \in 1..Len(reqs) : reqs[k].op = "removeproduct" /\ reqs[k].id = id

\* C15: for every addProduct that has succeeded with fields F and id n, and
\* whose id no removeProduct has named, a listing of all products holds a
\* product with id n whose fields are exactly F
C15_RoundTrip ==
    [][ListArrives
       => \A j \in 1..Len(reqs) :
             ( /\ reqs[j].op = "addproduct"
               /\ reqs[j].resp.status = 200
               /\ ~RemoveRequested(reqs[j].id) )
             => \E k \in 1..Len(reqs'[Len(reqs')].list) :
                   LET p == reqs'[Len(reqs')].list[k]
                   IN  p.id = reqs[j].id /\ Fields(p) = reqs[j].fields]_vars

\* a required field of f is absent, or a price of f is not a number
Malformed(f) ==
    \/ f.name = "" \/ f.image = << >> \/ f.category = "" \/ f.description = ""
    \/ f.new_price.t # "number" \/ f.old_price.t # "number"

\* request i is received or resumed in this step
Handled(i) == i > Len(reqs) \/ (i <= Len(reqs) /\ reqs'[i] # reqs[i])

\* C16: an addProduct whose fields lack a required field, or hold a price
\* that is not a number, is answered with a validation error (400) and never
\* with success, and no step of its handler changes the catalog or the id the
\* next addProduct will be assigned
C16_MalformedProductRejected ==
    [][\A i \in 1..Len(reqs') :
          (reqs'[i].op = "addproduct" /\ Malformed(reqs'[i].fields))
          => /\ reqs'[i].resp.status # 200
             /\ reqs'[i].pc = "done" => reqs'[i].resp.status = 400
             /\ Handled(i) => /\ products' = products
                              /\ NextId(products') = NextId(products)]_vars

\* C17: a request whose handler has run to its end, a store call of it having
\* failed or not, has been answered: none is left without a response
C17_FailureSurfaced ==
    \A i \in 1..Len(reqs) : reqs[i].pc = "done" => reqs[i].resp.status # 0

\* C18: the paymentId of every stored Order is the id of a payment preference
\* whose creation succeeded before
C18_OrderAfterPayment ==
    \A k \in 1..Len(orders) : orders[k].paymentId \in preferences

\* what a user record holds besides the cart
Identity(u) == [name |-> u.name, email |-> u.email, password |-> u.password]

\* C19: the findOneAndUpdate of an addToCart or removeFromCart made with a
\* token of user U leaves the record of every other user as it was, and
\* leaves U's name, email and password hash as they were; no user is added or
\* removed
C19_CartFrame ==
    [][\A i \in 1..Len(reqs) :
          (Writes(i, "addtocart") \/ Writes(i, "removefromcart"))
          => /\ Len(users') = Len(users)
             /\ \A u \in UserIds :
                   IF u = reqs[i].tok.uid
                   THEN Identity(users'[u]) = Identity(users[u])
                   ELSE users'[u] = users[u]]_vars

\* two users are stored, and an addToCart of one of them has changed its own
\* cart while the other's is as it was at signup
C19_Witness ==
    \E i \in 1..Len(reqs) :
        /\ reqs[i].op = "addtocart" /\ reqs[i].resp.status = 200
        /\ Len(users) = 2
        /\ users[reqs[i].tok.uid].cartData # InitialCart
        /\ \E u \in UserIds : u # reqs[i].tok.uid /\ users[u].cartData = InitialCart

\* request Len(reqs') is a newcollections listing that arrives in this step
NewCollectionsArrives ==
    /\ Len(reqs') = Len(reqs) + 1
    /\ reqs'[Len(reqs')].op = "newcollections"

\* C20: on a catalog of n products, newcollections sends the last min(8, n-1)
\* products of the catalog in stored order, none of them the product at index
\* 0, and the empty list when n <= 1
C20_NewCollections ==
    [][NewCollectionsArrives
       => LET list == reqs'[Len(reqs')].list
              n == Len(products)
              m == IF n <= 1 THEN 0 ELSE IF n - 1 < 8 THEN n - 1 ELSE 8
          IN  /\ reqs'[Len(reqs')].resp.status = 200
              /\ Len(list) = m
              /\ \A k \in 1..m : list[k] = products[n - m + k]
              /\ \A k \in 1..m : n - m + k # 1 /\ list[k] # products[1]]_vars

\* a catalog of more than 9 products was listed, and 8 of them were sent
C20_Witness ==
    \E i \in 1..Len(reqs) :
        /\ reqs[i].op = "newcollections"
        /\ Len(products) > 9
        /\ Len(reqs[i].list) = 8

\* request Len(reqs') is a relatedproducts request that arrives in this step
RelatedArrives ==
    /\ Len(reqs') = Len(reqs) + 1
    /\ reqs'[Len(reqs')].op = "relatedproducts"

\* the positions of the stored products whose id is 1, 2, 3 or 4
FixedPositions == {k \in 1..Len(products) : products[k].id \in 1..4}

\* C21: whatever id is requested, relatedproducts sends exactly the stored
\* products whose id is in {1,2,3,4}, in stored order, and answers 404 exactly
\* when no stored product has an id in that set
C21_RelatedFixedSet ==
    [][RelatedArrives
       => LET r == reqs'[Len(reqs')]
          IN  /\ r.resp.status = (IF FixedPositions = {} THEN 404 ELSE 200)
              /\ Len(r.list) = Cardinality(FixedPositions)
              /\ \A k \in 1..Len(r.list) : r.list[k].id \in 1..4
              /\ \A k \in FixedPositions :
                    r.list[Cardinality({j \in FixedPositions : j <= k})] = products[k]]_vars

\* a request for an id outside the fixed set, which a stored product has, was
\* sent the products of the fixed set and not that product
C21_Witness ==
    \E i \in 1..Len(reqs) :
        /\ reqs[i].op = "relatedproducts"
        /\ reqs[i].id = MaxRelatedId
        /\ HasId(products, MaxRelatedId)
        /\ reqs[i].resp.status = 200
        /\ \A k \in 1..Len(reqs[i].list) : reqs[i].list[k].id # MaxRelatedId

\* C22: the user id of every issued token, and of every token a response
\* carries, is the id of a stored user; a cart request whose token verifies
\* finds its user: it is not answered 'Server Error' for a missing user, and
\* once its handler has run to its end it has been answered 200
C22_TokensForStoredUsers ==
    /\ tokens \subseteq UserIds
    /\ \A i \in 1..Len(reqs) :
          reqs[i].resp.uid # 0 => reqs[i].resp.uid \in UserIds
    /\ \A i \in 1..Len(reqs) :
          (reqs[i].op \in CartOps /\ reqs[i].tok.kind = "signed")
          => /\ reqs[i].tok.uid \in UserIds
             /\ reqs[i].resp.body # "Server Error"
             /\ reqs[i].pc = "done" => reqs[i].resp.status = 200

\* the save of a signup was rejected by the store, and a cart request with an
\* issued token has been answered 200
C22_Witness ==
    \E i, j \in 1..Len(reqs) :
        /\ reqs[i].op = "signup" /\ reqs[i].pc = "done"
        /\ reqs[i].resp.status \in {0, 500}
        /\ reqs[j].op \in CartOps /\ reqs[j].tok.kind = "signed"
        /\ reqs[j].resp.status = 200

\* C23: with one addProduct or removeProduct request at a time, the ids of
\* the stored products are strictly increasing in stored order, and so
\* pairwise distinct
C23_IdsIncreasing ==
    \A k, l \in 1..Len(products) : k < l => products[k].id < products[l].id

\* after a removeProduct, products are stored on both sides of the gap it left
C23_Witness ==
    /\ \E i \in 1..Len(reqs) : reqs[i].op = "removeproduct"
    /\ Len(products) >= 2
    /\ products[2].id > products[1].id + 1

\* C24: when a removeProduct(id) has been answered success and a stored
\* product has that id, an addProduct received after that removeProduct was
\* assigned the id
C24_RemovedIdAbsent ==
    \A i \in 1..Len(reqs) :
        ( /\ reqs[i].op = "removeproduct"
          /\ reqs[i].resp.status = 200
          /\ HasId(products, reqs[i].id) )
        => \E j \in (i + 1)..Len(reqs) :
              reqs[j].op = "addproduct" /\ reqs[j].id = reqs[i].id

====
